---- MODULE Spec2Model ----
(***************************************************************************)
(* Risk-scoring engine of FraudGuard-AI-Pro (services/inference-service): *)
(* the model registry and ensemble predictor (model_orchestration.py),    *)
(* the pipeline coordinator (inference_pipeline.py) and the serving       *)
(* endpoints that call them (app.py).                                      *)
(*                                                                         *)
(* Numbers.  The code computes with Python floats.  Probabilities are      *)
(* modelled in tenths (ProbScale), weights and latencies as integers, and  *)
(* every quotient as an exact fraction [n, d] in lowest terms with d > 0.  *)
(***************************************************************************)
EXTENDS Integers, Sequences, FiniteSets, TLC

VARIABLES models, model_weights, active_models,
          inference_count, total_inference_time,
          response, completed, completed_time,
          threads, log

vars == <<models, model_weights, active_models, inference_count,
          total_inference_time, response, completed, completed_time,
          threads, log>>

registry == <<models, model_weights, active_models>>
stats == <<inference_count, total_inference_time>>
ghost == <<completed, completed_time>>

(***************************************************************************)
(* Bounds of the model                                                     *)
(***************************************************************************)
\* longest active list the sequential model builds
MaxActive == 2
\* scoring calls the sequential model completes
MaxCalls == 1
\* requests the threaded model starts
MaxRequests == 3

\* model ids registered by setup_models
ModelIds == {"rf_v1", "gb_v1"}
\* blending weights a caller may pass (the code accepts any number)
Weights == {-1, 0, 2}
\* probabilities are counted in tenths
ProbScale == 10
\* np.random.random() draws from [0.0, 1.0): two sample values, in tenths
Probs == {1, 9}
\* wall-clock durations of one call, in ms
Latencies == {1, 2}
\* transaction amounts
Amounts == {75000}

(***************************************************************************)
(* Exact fractions                                                         *)
(***************************************************************************)
Abs(x) == IF x < 0 THEN -x ELSE x

RECURSIVE GCD(_, _)
GCD(a, b) == IF b = 0 THEN a ELSE GCD(b, a % b)

\* the fraction n/d (d > 0) in lowest terms
Rat(n, d) ==
    LET g == GCD(Abs(n), d)
    IN  [n |-> n \div g, d |-> d \div g]

RAdd(x, y) == Rat(x.n * y.d + y.n * x.d, x.d * y.d)
RMul(x, y) == Rat(x.n * y.n, x.d * y.d)
RLe(x, y) == x.n * y.d <= y.n * x.d
RLt(x, y) == x.n * y.d < y.n * x.d
RMin(x, y) == IF RLe(x, y) THEN x ELSE y
RMax(x, y) == IF RLe(x, y) THEN y ELSE x
Num(k) == [n |-> k, d |-> 1]

(***************************************************************************)
(* Sequences                                                               *)
(***************************************************************************)
Range(s) == {s[i] : i \in 1..Len(s)}

\* list.remove(x): removes the first occurrence of x (x occurs in s)
RemoveFirst(s, x) ==
    LET i == CHOOSE k \in 1..Len(s) : s[k] = x /\ \A j \in 1..(k - 1) : s[j] # x
    IN  [k \in 1..(Len(s) - 1) |-> IF k < i THEN s[k] ELSE s[k + 1]]

\* a dict with key k set to v (added when absent)
Put(f, k, v) == [x \in DOMAIN f \cup {k} |-> IF x = k THEN v ELSE f[x]]

(***************************************************************************)
(* Model Registry: ModelOrchestrator, called by one caller at a time       *)
(***************************************************************************)
\* ModelMetadata; of its fields only is_active is ever read or written by the
\* registry operations
ModelMetadata(flag) == [is_active |-> flag]

\* the ids that occur in the active list
ActiveIds == Range(active_models)

\* what a handler hands back to its caller: the HTTP status and body of an
\* endpoint, or the plain return of a method (status 0).  Beside it the record
\* keeps the call it answers: request is the body of a scoring request, and
\* invoked counts the model predictions made while serving the call.
NoResult == [present |-> FALSE]
NoRequest == [present |-> FALSE]

Resp(op, status, error, result, invoked, request) ==
    [op |-> op, status |-> status, error |-> error, result |-> result,
     invoked |-> invoked, request |-> request]

\* register_model(metadata, weight), metadata.model_id = id
register_model(id, flag, weight) ==
    /\ flag => Len(active_models) < MaxActive
    /\ models' = Put(models, id, ModelMetadata(flag))
    /\ model_weights' = Put(model_weights, id, weight)
    /\ active_models' = IF flag THEN Append(active_models, id) ELSE active_models
    /\ response' = Resp("register_model", 0, "", NoResult, 0, NoRequest)
    /\ UNCHANGED <<stats, ghost, threads, log>>

\* self.models[id].is_active = flag (a KeyError leaves the dict as it was)
SetActiveFlag(ms, id, flag) ==
    IF id \in DOMAIN ms THEN [ms EXCEPT ![id].is_active = flag] ELSE ms

\* activate_model without its `model_id in self.models` test
CanActivate_Unregistered(id) == id \notin ActiveIds

\* the guard of activate_model
CanActivate(id) == id \in DOMAIN models /\ id \notin ActiveIds

\* the registry activate_model(id) leaves behind
AfterActivate(id) ==
    IF CanActivate(id)
    THEN <<SetActiveFlag(models, id, TRUE), model_weights, Append(active_models, id)>>
    ELSE registry

\* POST /api/models/<id>/activate -> ModelOrchestrator.activate_model
activate_model(id) ==
    /\ models' = AfterActivate(id)[1]
    /\ active_models' = AfterActivate(id)[3]
    /\ response' = Resp("activate_model", 200, "", NoResult, 0, NoRequest)
    /\ UNCHANGED <<model_weights, stats, ghost, threads, log>>

\* the registry deactivate_model(id) leaves behind
AfterDeactivate(id) ==
    IF id \in ActiveIds
    THEN <<SetActiveFlag(models, id, FALSE), model_weights,
           RemoveFirst(active_models, id)>>
    ELSE registry

\* POST /api/models/<id>/deactivate -> ModelOrchestrator.deactivate_model
deactivate_model(id) ==
    /\ models' = AfterDeactivate(id)[1]
    /\ active_models' = AfterDeactivate(id)[3]
    /\ response' = Resp("deactivate_model", 200, "", NoResult, 0, NoRequest)
    /\ UNCHANGED <<model_weights, stats, ghost, threads, log>>

\* the maps a caller may pass to update_model_weights
WeightMaps == UNION {[S -> Weights] : S \in SUBSET ModelIds}

\* update_model_weights storing the weight of every id of the map
Applied_Upsert(weights) == DOMAIN weights

\* the ids of the map that pass `if model_id in self.models`
Applied(weights) == DOMAIN weights \cap DOMAIN models

\* update_model_weights adding each weight to the stored one
AfterUpdate_Accumulated(weights) ==
    [id \in DOMAIN model_weights |->
       IF id \in Applied(weights) THEN model_weights[id] + weights[id]
       ELSE model_weights[id]]

\* the weights update_model_weights(weights) leaves behind
AfterUpdate(weights) ==
    [id \in DOMAIN model_weights \cup Applied(weights) |->
       IF id \in Applied(weights) THEN weights[id] ELSE model_weights[id]]

\* the call before this one was update_model_weights with the same map
Repeats(weights) ==
    /\ response.op = "update_model_weights"
    /\ response.request.present
    /\ response.request.weights = weights

\* POST /api/models/weights with a "weights" map -> update_model_weights
update_model_weights(weights) ==
    /\ model_weights' = AfterUpdate(weights)
    /\ response' = Resp("update_model_weights", 200, "", NoResult, 0,
                        [present |-> TRUE, weights |-> weights,
                         again |-> Repeats(weights)])
    /\ UNCHANGED <<models, active_models, stats, ghost, threads, log>>

\* POST /api/models/weights without "weights"
update_model_weights_missing ==
    /\ response' = Resp("update_model_weights", 400, "Missing weights", NoResult, 0, NoRequest)
    /\ UNCHANGED <<registry, stats, ghost, threads, log>>

(***************************************************************************)
(* Ensemble Predictor: ModelOrchestrator.ensemble_predict                  *)
(***************************************************************************)
\* what one call of _predict_with_model produces: a PredictionResult with
\* fraud probability p (tenths), or an exception
Predicted(p) == [ok |-> TRUE, p |-> p]
Failed == [ok |-> FALSE, p |-> 0]

\* _predict_with_model as written: np.random.random(), never an exception
CodeOutcomes == {Predicted(p) : p \in Probs}

\* iteration k of the loop raises: the model's prediction raised, or the id is
\* no key of self.models or self.model_weights (KeyError)
IterRaises(am, ms, mw, outs, k) ==
    \/ am[k] \notin DOMAIN ms
    \/ ~outs[k].ok
    \/ am[k] \notin DOMAIN mw

RECURSIVE WeightedSum(_, _, _, _)
\* weighted_sum after the first k iterations
WeightedSum(am, mw, outs, k) ==
    IF k = 0 THEN 0
    ELSE WeightedSum(am, mw, outs, k - 1) + outs[k].p * mw[am[k]]

RECURSIVE TotalWeight(_, _, _)
\* total_weight after the first k iterations
TotalWeight(am, mw, k) ==
    IF k = 0 THEN 0 ELSE TotalWeight(am, mw, k - 1) + mw[am[k]]

\* the quotient with 1.0 as the value for a total weight that is not positive
EnsembleProbability_OneOnZero(weighted_sum, total_weight) ==
    IF total_weight > 0 THEN Rat(weighted_sum, total_weight * ProbScale)
    ELSE Num(1)

\* weighted_sum / total_weight if total_weight > 0 else 0.0
EnsembleProbability(weighted_sum, total_weight) ==
    IF total_weight > 0 THEN Rat(weighted_sum, total_weight * ProbScale)
    ELSE Num(0)

\* ensemble_predict without its empty-list test
NoActiveModels_Unchecked(am) == FALSE

\* `if not self.active_models`
NoActiveModels(am) == am = <<>>

\* ensemble_predict on active list am, metadata ms and weights mw, when the
\* k-th call of _predict_with_model produces outs[k]
ensemble_predict(am, ms, mw, outs) ==
    IF NoActiveModels(am)
    THEN [raised |-> TRUE, error |-> "No active models available for prediction",
          invoked |-> 0]
    ELSE IF \E k \in 1..Len(am) : IterRaises(am, ms, mw, outs, k)
    THEN LET k == CHOOSE i \in 1..Len(am) :
                     /\ IterRaises(am, ms, mw, outs, i)
                     /\ \A j \in 1..(i - 1) : ~IterRaises(am, ms, mw, outs, j)
         IN  [raised |-> TRUE,
              error |-> IF am[k] \in DOMAIN ms /\ ~outs[k].ok
                        THEN "model inference failed" ELSE "KeyError",
              invoked |-> IF am[k] \in DOMAIN ms THEN k ELSE k - 1]
    ELSE [raised |-> FALSE, error |-> "", invoked |-> Len(am),
          ensemble_probability |->
              EnsembleProbability(WeightedSum(am, mw, outs, Len(am)),
                                  TotalWeight(am, mw, Len(am))),
          individual_predictions |->
              [k \in 1..Len(am) |-> [model_id |-> am[k], fraud_probability |-> outs[k].p]],
          model_count |-> Len(am)]

(***************************************************************************)
(* Pipeline Coordinator: InferencePipeline and POST /api/detect            *)
(***************************************************************************)
\* a request body, as far as the pipeline distinguishes bodies: complete = all
\* required fields are present; hashable = the fields that to_feature_vector
\* hashes are JSON strings or numbers (not arrays or objects); numeric =
\* transaction_amount is a JSON number
Txn(complete, hashable, numeric, amount) ==
    [complete |-> complete, hashable |-> hashable, numeric |-> numeric,
     amount |-> amount]

Transactions ==
    {Txn(TRUE, TRUE, TRUE, a) : a \in Amounts}
    \cup {Txn(FALSE, TRUE, TRUE, 75000), Txn(TRUE, FALSE, TRUE, 75000),
          Txn(TRUE, TRUE, FALSE, 0)}

fraud_threshold == [n |-> 1, d |-> 2]
risk_score_threshold == 70

\* _assess_amount_risk with the boundaries in the upper tier
assess_amount_risk_Inclusive(amount) ==
    IF amount >= 10000 THEN 80
    ELSE IF amount >= 5000 THEN 60
    ELSE IF amount >= 1000 THEN 30
    ELSE 10

assess_amount_risk(amount) ==
    IF amount > 10000 THEN 80
    ELSE IF amount > 5000 THEN 60
    ELSE IF amount > 1000 THEN 30
    ELSE 10

assess_location_risk(location) == 20

assess_time_risk(transaction_time) == 15

\* _calculate_risk_score as the plain sum of its four parts, neither weighted
\* nor clamped
calculate_risk_score_Unclamped(fraud_probability, txn) ==
    RAdd(RAdd(RMul(fraud_probability, Num(100)),
              Num(assess_amount_risk(txn.amount))),
         RAdd(Num(assess_location_risk("user_location")),
              Num(assess_time_risk("transaction_time"))))

\* min(100.0, max(0.0, base*0.5 + amount*0.2 + location*0.2 + time*0.1))
calculate_risk_score(fraud_probability, txn) ==
    LET base_score == RMul(fraud_probability, Num(100))
        amount_risk == Num(assess_amount_risk(txn.amount))
        location_risk == Num(assess_location_risk("user_location"))
        time_risk == Num(assess_time_risk("transaction_time"))
        risk_score ==
            RAdd(RAdd(RMul(base_score, Rat(1, 2)), RMul(amount_risk, Rat(1, 5))),
                 RAdd(RMul(location_risk, Rat(1, 5)), RMul(time_risk, Rat(1, 10))))
    IN  RMin(Num(100), RMax(Num(0), risk_score))

\* the flag with both thresholds exclusive
IsFlagged_Strict(fraud_probability, risk_score) ==
    \/ RLt(fraud_threshold, fraud_probability)
    \/ RLt(Num(risk_score_threshold), risk_score)

IsFlagged(fraud_probability, risk_score) ==
    \/ RLe(fraud_threshold, fraud_probability)
    \/ RLe(Num(risk_score_threshold), risk_score)

\* is_flagged of a pipeline constructed with thresholds ft and rt
IsFlaggedAt(fraud_probability, risk_score, ft, rt) ==
    \/ RLe(ft, fraud_probability)
    \/ RLe(rt, risk_score)

\* the recommendation with BLOCK kept to the score band (90, 100)
generate_recommendation_Banded(fraud_probability, risk_score, is_flagged) ==
    IF ~is_flagged THEN "APPROVE"
    ELSE IF \/ RLt(Rat(8, 10), fraud_probability)
            \/ (RLt(Num(90), risk_score) /\ RLt(risk_score, Num(100)))
    THEN "BLOCK"
    ELSE IF RLt(Rat(6, 10), fraud_probability) \/ RLt(Num(75), risk_score) THEN "REVIEW"
    ELSE "CHALLENGE"

\* the recommendation with APPROVE in place of the final CHALLENGE
generate_recommendation_Lenient(fraud_probability, risk_score, is_flagged) ==
    IF ~is_flagged THEN "APPROVE"
    ELSE IF RLt(Rat(8, 10), fraud_probability) \/ RLt(Num(90), risk_score) THEN "BLOCK"
    ELSE IF RLt(Rat(6, 10), fraud_probability) \/ RLt(Num(75), risk_score) THEN "REVIEW"
    ELSE "APPROVE"

generate_recommendation(fraud_probability, risk_score, is_flagged) ==
    IF ~is_flagged THEN "APPROVE"
    ELSE IF RLt(Rat(8, 10), fraud_probability) \/ RLt(Num(90), risk_score) THEN "BLOCK"
    ELSE IF RLt(Rat(6, 10), fraud_probability) \/ RLt(Num(75), risk_score) THEN "REVIEW"
    ELSE "CHALLENGE"

\* the FraudDetectionResult built from an ensemble outcome ep (confidence and
\* timestamp are left out: no registry or statistics state depends on them)
FraudDetectionResult(ep, txn, latency) ==
    LET risk_score == calculate_risk_score(ep.ensemble_probability, txn)
        is_flagged == IsFlagged(ep.ensemble_probability, risk_score)
    IN  [present |-> TRUE,
         fraud_probability |-> ep.ensemble_probability,
         risk_score |-> risk_score,
         is_flagged |-> is_flagged,
         recommendation |->
             generate_recommendation(ep.ensemble_probability, risk_score, is_flagged),
         model_predictions |-> ep.individual_predictions,
         model_count |-> ep.model_count,
         processing_time_ms |-> latency]

\* to_feature_vector raises: hash() of an unhashable field
ExtractorRejects(txn) == ~txn.hashable

\* _assess_amount_risk with a default in place of the failing comparison
AmountRiskRaises_Defaulted(txn) == FALSE

\* _assess_amount_risk raises: `amount > 10000` on a value that is no number
AmountRiskRaises(txn) == ~txn.numeric

\* process_transaction: the exception it raises, or the result it returns
process_transaction(txn, am, ms, mw, outs, latency) ==
    IF ExtractorRejects(txn)
    THEN [raised |-> TRUE, error |-> "TypeError: unhashable type", invoked |-> 0]
    ELSE LET ep == ensemble_predict(am, ms, mw, outs)
         IN  IF ep.raised THEN ep
             ELSE IF AmountRiskRaises(txn)
             THEN [raised |-> TRUE, error |-> "TypeError: '>' not supported",
                   invoked |-> ep.invoked]
             ELSE [raised |-> FALSE, error |-> "", invoked |-> ep.invoked,
                   result |-> FraudDetectionResult(ep, txn, latency)]

\* POST /api/detect with body txn, when the pipeline's model calls produce
\* outs and the call takes latency ms
\* the statistics update that adds the latency but not the call
StatsAfter_TimeOnly(count, time, latency) == <<count, time + latency>>

\* self.inference_count += 1; self.total_inference_time += processing_time_ms
StatsAfter(count, time, latency) == <<count + 1, time + latency>>

DetectFraud(txn, outs, latency) ==
    /\ IF ~txn.complete
       THEN /\ response' = Resp("detect_fraud", 400, "Missing required field", NoResult, 0, txn)
            /\ UNCHANGED <<stats, ghost>>
       ELSE LET r == process_transaction(txn, active_models, models, model_weights,
                                         outs, latency)
            IN  IF r.raised
                THEN /\ response' = Resp("detect_fraud", 500, r.error, NoResult, r.invoked, txn)
                     /\ UNCHANGED <<stats, ghost>>
                ELSE /\ inference_count < MaxCalls
                     /\ inference_count' =
                          StatsAfter(inference_count, total_inference_time, latency)[1]
                     /\ total_inference_time' =
                          StatsAfter(inference_count, total_inference_time, latency)[2]
                     /\ completed' = completed + 1
                     /\ completed_time' = completed_time + latency
                     /\ response' = Resp("detect_fraud", 200, "", r.result, r.invoked, txn)
    /\ UNCHANGED <<registry, threads, log>>

\* the model calls of one ensemble prediction: one outcome per entry of the
\* active list; none is drawn when the request is rejected before the
\* ensemble runs
OutcomeSeqs(txn, Outcomes) ==
    IF txn.complete /\ txn.hashable
    THEN [1..Len(active_models) -> Outcomes]
    ELSE {[k \in 1..Len(active_models) |-> CHOOSE o \in Outcomes : TRUE]}

\* time.time() - start_time is taken only when every stage before it passed
Durations(txn) ==
    IF txn.complete /\ txn.hashable /\ txn.numeric THEN Latencies ELSE {0}

detect_fraud ==
    \E txn \in Transactions :
        \E latency \in Durations(txn), outs \in OutcomeSeqs(txn, CodeOutcomes) :
            DetectFraud(txn, outs, latency)

(***************************************************************************)
(* One caller at a time                                                    *)
(***************************************************************************)
\* the request-handling threads of the server, and a thread between requests
Threads == {"t1", "t2"}

Idle(served) ==
    [pc |-> "idle", served |-> served, id |-> "", todo |-> <<>>, idx |-> 0,
     model_id |-> "", weighted_sum |-> 0, total_weight |-> 0, latency |-> 0,
     read |-> 0, used |-> <<>>, start |-> 0]

IdleThreads == [t \in Threads |-> Idle(0)]

Init ==
    /\ models = <<>>
    /\ model_weights = <<>>
    /\ active_models = <<>>
    /\ inference_count = 0
    /\ total_inference_time = 0
    /\ completed = 0
    /\ completed_time = 0
    /\ response = Resp("init", 0, "", NoResult, 0, NoRequest)
    /\ threads = IdleThreads
    /\ log = <<>>

Register == \E id \in ModelIds, flag \in BOOLEAN, weight \in Weights :
                register_model(id, flag, weight)
Activate == \E id \in ModelIds : activate_model(id)
Deactivate == \E id \in ModelIds : deactivate_model(id)
UpdateWeights == \E weights \in WeightMaps : update_model_weights(weights)

Next ==
    \/ Register
    \/ Activate
    \/ Deactivate
    \/ UpdateWeights
    \/ update_model_weights_missing
    \/ detect_fraud

Spec == Init /\ [][Next]_vars

(***************************************************************************)
(* Claims about the registry and the ensemble, one caller at a time        *)
(***************************************************************************)
\* The scoring endpoint leaves the registry as it found it, and every other
\* call replaces response: while response.op = "detect_fraud", the registry is
\* the one the scoring call ran on.

\* the last call was a scoring call that returned a ScoringResult
Scored == response.op = "detect_fraud" /\ response.status = 200

\* the last call was a scoring call that ended in an error
ScoreFailed == response.op = "detect_fraud" /\ response.status # 200

\* C4: after any sequence of register, activate, deactivate and update_weights
\* calls, every id in the active list is a registered id.
C4_ActiveSubsetOfRegistered == ActiveIds \subseteq DOMAIN models

\* an activate call has just put a second id on the active list
C4_Witness ==
    /\ response.op = "activate_model"
    /\ Cardinality(ActiveIds) = 2

\* C5 (as claimed): whatever weights the callers pass to register and
\* update_weights, every stored blending weight is >= 0.
C5_WeightsNonNegative == \A id \in DOMAIN model_weights : model_weights[id] >= 0

RECURSIVE SetSum(_, _)
\* the sum of f[x] over the finite set S
SetSum(f, S) ==
    IF S = {} THEN 0
    ELSE LET x == CHOOSE y \in S : TRUE
         IN  f[x] + SetSum(f, S \ {x})

\* the predictions of result r that belong to model id
PredictionsOf(r, id) ==
    {k \in 1..Len(r.model_predictions) : r.model_predictions[k].model_id = id}

\* C6 (as claimed): with a non-empty active set, predict returns
\* sum(weight_i * probability_i) / sum(weight_i) over the active models, each
\* active model contributing exactly once.  Stated where the quotient is
\* defined by weights the spec allows: all weights >= 0, their sum > 0.
C6_EnsembleIsWeightedMeanOverActiveSet ==
    (/\ Scored
     /\ \A id \in DOMAIN model_weights : model_weights[id] >= 0
     /\ SetSum(model_weights, ActiveIds) > 0)
    => LET r == response.result
           p == [id \in ActiveIds |->
                   r.model_predictions[CHOOSE k \in PredictionsOf(r, id) : TRUE]
                       .fraud_probability]
       IN  /\ r.model_count = Cardinality(ActiveIds)
           /\ \A id \in ActiveIds : Cardinality(PredictionsOf(r, id)) = 1
           /\ r.fraud_probability =
                Rat(SetSum([id \in ActiveIds |-> model_weights[id] * p[id]], ActiveIds),
                    SetSum(model_weights, ActiveIds) * ProbScale)

\* C7: when the active list is empty, predict raises "No active models
\* available for prediction" before any model is called, and the scoring call
\* that reached it returns no outcome.
C7_EmptyActiveSetIsHardStop ==
    (/\ response.op = "detect_fraud"
     /\ response.request.complete /\ response.request.hashable
     /\ active_models = <<>>)
    => /\ response.status = 500
       /\ response.error = "No active models available for prediction"
       /\ response.result = NoResult
       /\ response.invoked = 0

\* a scoring call has just met an empty active list of a non-empty registry
C7_Witness ==
    /\ ScoreFailed
    /\ response.error = "No active models available for prediction"
    /\ active_models = <<>>
    /\ DOMAIN models # {}

\* the next scoring call of a well-formed transaction fails in predict
NextScoreFails ==
    \A outs \in [1..Len(active_models) -> CodeOutcomes] :
        ensemble_predict(active_models, models, model_weights, outs).raised

\* C8 (as claimed): once the only active model is deactivated the next scoring
\* call fails; once it is activated again (no re-registration) the next
\* scoring call succeeds and scores with that model alone.
C8_DeactivateOnlyModelThenReactivate ==
    [][\A id \in ModelIds :
         /\ (ActiveIds = {id} /\ deactivate_model(id)) => NextScoreFails'
         /\ (active_models = <<>> /\ id \in DOMAIN models /\ activate_model(id))
            => (active_models' = <<id>> /\ ~NextScoreFails')]_vars

\* a stage of process_transaction fails on txn: the feature extractor rejects
\* it, the active list is empty, or the amount cannot be compared
StageFails(txn) == ~txn.hashable \/ active_models = <<>> \/ ~txn.numeric

\* C10: if a stage of process fails, the call is aborted with an error for the
\* caller and no ScoringResult, complete or partial, is returned.
C10_FailureAbortsPipeline ==
    (/\ response.op = "detect_fraud"
     /\ response.request.complete
     /\ StageFails(response.request))
    => /\ response.status = 500
       /\ response.error # ""
       /\ response.result = NoResult

\* the extractor has just rejected a transaction while models were active
C10_Witness ==
    /\ ScoreFailed
    /\ response.error = "TypeError: unhashable type"
    /\ active_models # <<>>

(***************************************************************************)
(* The ensemble against a model-serving collaborator that can fail         *)
(*                                                                         *)
(* _predict_with_model is a placeholder for the call of the actual model.  *)
(* Here that call behaves as the infer contract allows: it may raise (a    *)
(* failure or a timeout) or hand back a value outside [0, 1].              *)
(***************************************************************************)
\* a fraud probability of 1.5
OutOfRange == Predicted(ProbScale + 5)

ContractOutcomes == CodeOutcomes \cup {Failed, OutOfRange}

detect_fraud_infer ==
    \E txn \in Transactions :
        \E latency \in Durations(txn), outs \in OutcomeSeqs(txn, ContractOutcomes) :
            DetectFraud(txn, outs, latency)

InferNext ==
    \/ Register
    \/ Deactivate
    \/ detect_fraud_infer

InferSpec == Init /\ [][InferNext]_vars

\* the model calls whose result may enter the ensemble
Usable(outs) ==
    {k \in 1..Len(outs) : outs[k].ok /\ outs[k].p >= 0 /\ outs[k].p <= ProbScale}

\* the entries of the active list, in order, whose index is in K
RECURSIVE Kept(_, _, _)
Kept(am, K, k) ==
    IF k = 0 THEN <<>>
    ELSE IF k \in K THEN Append(Kept(am, K, k - 1), k) ELSE Kept(am, K, k - 1)

\* C9 (as claimed): when the inference of one active model fails, times out
\* or returns a probability outside [0, 1] while another active model answers
\* (each id once on the active list), the call does not fail: the ensemble is computed over the remaining models
\* alone and the excluded model is recorded in the outcome.
C9_ModelFailureIsRecoveredLocally ==
    [][\A txn \in Transactions :
         \A latency \in Durations(txn), outs \in OutcomeSeqs(txn, ContractOutcomes) :
           (/\ response'.op = "detect_fraud"
            /\ txn.complete /\ txn.hashable /\ txn.numeric
            /\ Cardinality(ActiveIds) = Len(active_models)
            /\ Usable(outs) # {}
            /\ Usable(outs) # 1..Len(outs)
            /\ DetectFraud(txn, outs, latency))
           => LET kept == Kept(active_models, Usable(outs), Len(active_models))
                  am == [i \in 1..Len(kept) |-> active_models[kept[i]]]
                  ok == [i \in 1..Len(kept) |-> outs[kept[i]]]
              IN  /\ response'.status = 200
                  /\ response'.result.model_predictions =
                       [i \in 1..Len(kept) |->
                          [model_id |-> am[i], fraud_probability |-> ok[i].p]]
                  /\ response'.result.fraud_probability =
                       EnsembleProbability(
                           WeightedSum(am, model_weights, ok, Len(kept)),
                           TotalWeight(am, model_weights, Len(kept)))
                  /\ "excluded" \in DOMAIN response'.result
                  /\ response'.result.excluded =
                       {active_models[k] : k \in (1..Len(outs)) \ Usable(outs)}]_vars

(***************************************************************************)
(* The threaded server.  app.run() serves each request on a thread of its  *)
(* own, all on the one module-level inference_pipeline, and neither the    *)
(* orchestrator nor the pipeline takes a lock: handlers interleave between *)
(* any two accesses of the shared registry and counters.  One step below   *)
(* is one such access together with the local computation around it.       *)
(*                                                                         *)
(* log lists the registry states (active list, weights) in the order they  *)
(* came to exist; a scoring thread notes in start the length of log when   *)
(* its call began and in used the (id, weight) pairs that entered its sums.*)
(***************************************************************************)
\* setup_models registers these, active, with weight 1.0
SetupModels == <<"rf_v1", "gb_v1">>
SetupWeight == 1

\* weight maps posted to the threaded server
ThreadWeightMaps == UNION {[S -> {2}] : S \in (SUBSET ModelIds) \ {{}}}

Snapshot(am, mw) == [am |-> am, mw |-> mw]

ConcInit ==
    /\ models = [id \in ModelIds |-> ModelMetadata(TRUE)]
    /\ model_weights = [id \in ModelIds |-> SetupWeight]
    /\ active_models = SetupModels
    /\ inference_count = 0
    /\ total_inference_time = 0
    /\ completed = 0
    /\ completed_time = 0
    /\ response = Resp("init", 0, "", NoResult, 0, NoRequest)
    /\ threads = IdleThreads
    /\ log = <<Snapshot(SetupModels, [id \in ModelIds |-> SetupWeight])>>

Served == SetSum([t \in Threads |-> threads[t].served], Threads)

\* thread t takes the next request
Accepts(t) == threads[t].pc = "idle" /\ Served < MaxRequests

\* thread t goes to pc with the locals in chg changed
Goto(t, pc, chg) ==
    threads' = [threads EXCEPT ![t] =
                  [f \in DOMAIN threads[t] |->
                     IF f = "pc" THEN pc
                     ELSE IF f \in DOMAIN chg THEN chg[f] ELSE threads[t][f]]]

\* thread t returns from its handler
Return(t) == threads' = [threads EXCEPT ![t] = Idle(threads[t].served)]

\* the registry state a step produces is appended to log
Logged(am, mw) == log' = Append(log, Snapshot(am, mw))

\* POST /api/detect, well-formed body: ensemble_predict's test of the list
ScoreBegin(t) ==
    /\ Accepts(t)
    /\ IF NoActiveModels(active_models)
       THEN threads' = [threads EXCEPT ![t] = Idle(threads[t].served + 1)]
       ELSE Goto(t, "ep_next", [served |-> threads[t].served + 1, start |-> Len(log)])
    /\ UNCHANGED <<registry, stats, ghost, response, log>>

\* `for model_id in self.active_models`: the list iterator's next step; when
\* the list is exhausted the ensemble and the risk score are computed and the
\* duration is taken
ScoreNext(t) ==
    /\ threads[t].pc = "ep_next"
    /\ IF threads[t].idx < Len(active_models)
       THEN Goto(t, "ep_body", [idx |-> threads[t].idx + 1,
                                model_id |-> active_models[threads[t].idx + 1]])
       ELSE \E latency \in Latencies : Goto(t, "read_count", [latency |-> latency])
    /\ UNCHANGED <<registry, stats, ghost, response, log>>

\* the loop body: the model's prediction, then self.model_weights[model_id]
ScoreBody(t) ==
    /\ threads[t].pc = "ep_body"
    /\ \E out \in CodeOutcomes :
         LET weight == model_weights[threads[t].model_id]
         IN  Goto(t, "ep_next",
                  [weighted_sum |-> threads[t].weighted_sum + out.p * weight,
                   total_weight |-> threads[t].total_weight + weight,
                   used |-> Append(threads[t].used, <<threads[t].model_id, weight>>)])
    /\ UNCHANGED <<registry, stats, ghost, response, log>>

\* self.inference_count += 1: the read
ReadCount(t) ==
    /\ threads[t].pc = "read_count"
    /\ Goto(t, "write_count", [read |-> inference_count])
    /\ UNCHANGED <<registry, stats, ghost, response, log>>

\* self.inference_count += 1: the write
WriteCount(t) ==
    /\ threads[t].pc = "write_count"
    /\ inference_count' = threads[t].read + 1
    /\ Goto(t, "read_time", [read |-> 0])
    /\ UNCHANGED <<registry, total_inference_time, ghost, response, log>>

\* self.total_inference_time += processing_time_ms: the read
ReadTime(t) ==
    /\ threads[t].pc = "read_time"
    /\ Goto(t, "write_time", [read |-> total_inference_time])
    /\ UNCHANGED <<registry, stats, ghost, response, log>>

\* self.total_inference_time += processing_time_ms: the write; the call then
\* returns its FraudDetectionResult
WriteTime(t) ==
    /\ threads[t].pc = "write_time"
    /\ total_inference_time' = threads[t].read + threads[t].latency
    /\ completed' = completed + 1
    /\ completed_time' = completed_time + threads[t].latency
    /\ Return(t)
    /\ UNCHANGED <<registry, inference_count, response, log>>

\* activate_model: `model_id in self.models and model_id not in self.active_models`
ActivateCheck(t, id) ==
    /\ Accepts(t)
    /\ IF CanActivate(id)
       THEN Goto(t, "act_append", [served |-> threads[t].served + 1, id |-> id])
       ELSE threads' = [threads EXCEPT ![t] = Idle(threads[t].served + 1)]
    /\ UNCHANGED <<registry, stats, ghost, response, log>>

\* activate_model: self.active_models.append(model_id)
ActivateAppend(t) ==
    /\ threads[t].pc = "act_append"
    /\ active_models' = Append(active_models, threads[t].id)
    /\ Goto(t, "act_flag", <<>>)
    /\ Logged(Append(active_models, threads[t].id), model_weights)
    /\ UNCHANGED <<models, model_weights, stats, ghost, response>>

\* activate_model: self.models[model_id].is_active = True
ActivateFlag(t) ==
    /\ threads[t].pc = "act_flag"
    /\ models' = SetActiveFlag(models, threads[t].id, TRUE)
    /\ Return(t)
    /\ UNCHANGED <<model_weights, active_models, stats, ghost, response, log>>

\* deactivate_model: `model_id in self.active_models`
DeactivateCheck(t, id) ==
    /\ Accepts(t)
    /\ IF id \in ActiveIds
       THEN Goto(t, "deact_remove", [served |-> threads[t].served + 1, id |-> id])
       ELSE threads' = [threads EXCEPT ![t] = Idle(threads[t].served + 1)]
    /\ UNCHANGED <<registry, stats, ghost, response, log>>

\* deactivate_model: self.active_models.remove(model_id), a ValueError when
\* the id is no longer on the list
DeactivateRemove(t) ==
    /\ threads[t].pc = "deact_remove"
    /\ IF threads[t].id \in ActiveIds
       THEN /\ active_models' = RemoveFirst(active_models, threads[t].id)
            /\ Goto(t, "deact_flag", <<>>)
            /\ Logged(RemoveFirst(active_models, threads[t].id), model_weights)
       ELSE /\ Return(t)
            /\ UNCHANGED <<active_models, log>>
    /\ UNCHANGED <<models, model_weights, stats, ghost, response>>

\* deactivate_model: self.models[model_id].is_active = False
DeactivateFlag(t) ==
    /\ threads[t].pc = "deact_flag"
    /\ models' = SetActiveFlag(models, threads[t].id, FALSE)
    /\ Return(t)
    /\ UNCHANGED <<model_weights, active_models, stats, ghost, response, log>>

\* update_model_weights: the call with its map
UpdateBegin(t, weights) ==
    /\ Accepts(t)
    /\ Goto(t, "upd_item", [served |-> threads[t].served + 1, todo |-> weights])
    /\ UNCHANGED <<registry, stats, ghost, response, log>>

\* update_model_weights: one item of weights.items()
UpdateItem(t) ==
    /\ threads[t].pc = "upd_item"
    /\ \E id \in DOMAIN threads[t].todo :
         LET rest == [x \in DOMAIN threads[t].todo \ {id} |-> threads[t].todo[x]]
         IN  /\ IF id \in DOMAIN models
                THEN /\ model_weights' = Put(model_weights, id, threads[t].todo[id])
                     /\ Logged(active_models,
                               Put(model_weights, id, threads[t].todo[id]))
                ELSE UNCHANGED <<model_weights, log>>
             /\ IF DOMAIN rest = {}
                THEN Return(t)
                ELSE Goto(t, "upd_item", [todo |-> rest])
    /\ UNCHANGED <<models, active_models, stats, ghost, response>>

\* one step of thread t
ThreadStep(t) ==
    \/ ScoreBegin(t)
    \/ ScoreNext(t)
    \/ ScoreBody(t)
    \/ ReadCount(t)
    \/ WriteCount(t)
    \/ ReadTime(t)
    \/ WriteTime(t)
    \/ \E id \in ModelIds : ActivateCheck(t, id)
    \/ ActivateAppend(t)
    \/ ActivateFlag(t)
    \/ \E id \in ModelIds : DeactivateCheck(t, id)
    \/ DeactivateRemove(t)
    \/ DeactivateFlag(t)
    \/ \E weights \in ThreadWeightMaps : UpdateBegin(t, weights)
    \/ UpdateItem(t)

ConcNext == \E t \in Threads : ThreadStep(t)

ConcSpec == ConcInit /\ [][ConcNext]_vars

(***************************************************************************)
(* Claims about concurrent callers                                         *)
(***************************************************************************)
\* no handler is in flight
Quiescent == \A t \in Threads : threads[t].pc = "idle"

\* thread t has left the loop of ensemble_predict with its sums complete
LoopDone(t) ==
    threads[t].pc \in {"read_count", "write_count", "read_time", "write_time"}

\* the (id, weight) pairs that entered t's sums are the active list and the
\* weights of registry state s
ComputedFrom(t, s) ==
    LET used == threads[t].used
    IN  /\ [k \in 1..Len(used) |-> used[k][1]] = s.am
        /\ \A k \in 1..Len(used) : used[k][2] = s.mw[used[k][1]]

\* C1 (as claimed): a scoring call that runs while the registry is written
\* computes its ensemble from the active list and weights of one registry
\* state that existed during the call, never from parts of two.
C1_ScoringSeesOneRegistryState ==
    \A t \in Threads :
        LoopDone(t) =>
            \E i \in threads[t].start..Len(log) : ComputedFrom(t, log[i])

\* C2 (as claimed): when N scoring calls have completed, in any interleaving,
\* the invocation counter has grown by N and the cumulative latency by the
\* sum of their latencies.
C2_StatisticsUpdatesAreAtomic ==
    Quiescent =>
        /\ inference_count = completed
        /\ total_inference_time = completed_time

\* C3 (as claimed): concurrent registry writes leave the registry as some
\* sequential order of them would.  Run one after another from the state
\* setup_models builds, the endpoints' writes keep every id at most once on
\* the active list and every is_active flag equal to membership in it.
C3_WritesAreSerializable ==
    Quiescent =>
        /\ Cardinality(ActiveIds) = Len(active_models)
        /\ \A id \in DOMAIN models : models[id].is_active <=> id \in ActiveIds

(***************************************************************************)
(* The risk calculators and the decision policy as functions of their      *)
(* inputs: each action applies one of them to inputs drawn from the sets   *)
(* below and leaves the inputs in response.request and the value in        *)
(* response.result.                                                         *)
(***************************************************************************)
\* ensemble probabilities, in tenths: the whole of [0, 1]
PolicyProbs == 0..ProbScale
\* amounts around every band of _assess_amount_risk, and extreme ones
PolicyAmounts == {-1, 0, 1000, 1001, 5000, 5001, 10000, 10001, 1000000000}
\* risk scores handed to the decision policy
PolicyScores == 0..100

\* no function has been applied yet
Fresh == response.op = "init"

\* int(x) of Python: truncation towards zero
IntTrunc(x) == IF x.n >= 0 THEN x.n \div x.d ELSE -((-x.n) \div x.d)

\* predict_fraud of the ML engine: the blend of the three models (rf and gb
\* in tenths, iso = 1 when the isolation forest answers -1) and its score
ensemble_proba(rf, gb, iso) ==
    RAdd(RAdd(RMul(Rat(rf, ProbScale), Rat(4, 10)),
              RMul(Rat(gb, ProbScale), Rat(4, 10))),
         RMul(Num(iso), Rat(2, 10)))

predict_fraud_risk_score(proba) ==
    LET score == IntTrunc(RMul(proba, Num(100)))
    IN  IF score < 100 THEN score ELSE 100

\* _calculate_risk_score(fraud_probability, features)
CalculateRiskScore(p, amount) ==
    /\ Fresh
    /\ response' = Resp("calculate_risk_score", 0, "",
                        [present |-> TRUE,
                         risk_score |-> calculate_risk_score(
                                            Rat(p, ProbScale),
                                            Txn(TRUE, TRUE, TRUE, amount))],
                        0, [present |-> TRUE, p |-> p, amount |-> amount])
    /\ UNCHANGED <<registry, stats, ghost, threads, log>>

\* predict_fraud: the risk score of the blended probability
PredictFraud(rf, gb, iso) ==
    /\ Fresh
    /\ response' = Resp("predict_fraud", 0, "",
                        [present |-> TRUE,
                         risk_score |-> Num(predict_fraud_risk_score(
                                                ensemble_proba(rf, gb, iso)))],
                        0, [present |-> TRUE, rf |-> rf, gb |-> gb, iso |-> iso])
    /\ UNCHANGED <<registry, stats, ghost, threads, log>>

\* process_transaction, lines 149-156: the flag and the recommendation for a
\* probability p (tenths) and a risk score
Decide(p, score) ==
    /\ Fresh
    /\ LET is_flagged == IsFlagged(Rat(p, ProbScale), Num(score))
       IN  response' = Resp("decide", 0, "",
                            [present |-> TRUE,
                             is_flagged |-> is_flagged,
                             recommendation |->
                                 generate_recommendation(Rat(p, ProbScale),
                                                         Num(score), is_flagged)],
                            0, [present |-> TRUE, p |-> p, score |-> score])
    /\ UNCHANGED <<registry, stats, ghost, threads, log>>

\* thresholds a pipeline may be constructed with: the probability threshold in
\* tenths (1.1 is never met), the score threshold in points (101 is never met)
FraudThresholds == {0, 5, 9, 11}
RiskThresholds == {0, 70, 95, 101}
ThresholdScores == {0, 70, 76, 91, 100}

\* the flag and the recommendation of process_transaction in a pipeline
\* constructed with fraud_threshold ft / 10 and risk_score_threshold rt
DecideAt(p, score, ft, rt) ==
    /\ Fresh
    /\ LET is_flagged == IsFlaggedAt(Rat(p, ProbScale), Num(score),
                                     Rat(ft, ProbScale), Num(rt))
       IN  response' = Resp("decide_at", 0, "",
                            [present |-> TRUE,
                             is_flagged |-> is_flagged,
                             recommendation |->
                                 generate_recommendation(Rat(p, ProbScale),
                                                         Num(score), is_flagged)],
                            0, [present |-> TRUE, p |-> p, score |-> score,
                                fraud_threshold |-> ft,
                                risk_score_threshold |-> rt])
    /\ UNCHANGED <<registry, stats, ghost, threads, log>>

(***************************************************************************)
(* The rule-based engine of fraud_detection_api/app.py.  A field of the    *)
(* request body is absent (given = FALSE), a text that is no number        *)
(* (numeric = FALSE) or the number v; balances are fractions.  The type,   *)
(* payment method, location and device are kept by the class the engine's  *)
(* keyword lists put them in.                                              *)
(***************************************************************************)
Field(given, numeric, v) == [given |-> given, numeric |-> numeric, v |-> v]
Given(v) == Field(TRUE, TRUE, v)
Missing == Field(FALSE, FALSE, 0)
NotANumber == Field(TRUE, FALSE, 0)

\* dict.get(key, default) followed by float()/int(): the number read, or the
\* ValueError of the conversion
Converted(field, default) ==
    IF ~field.given THEN [raised |-> FALSE, v |-> default]
    ELSE IF ~field.numeric THEN [raised |-> TRUE, v |-> default]
    ELSE [raised |-> FALSE, v |-> field.v]

\* risk_weights[k] * points, with the weight in hundredths
Weighted(weight, points) == RMul(Rat(weight, 100), Num(points))

\* amount / balance > k for a whole amount and the fraction k = kn/kd, decided
\* without forming the quotient: amount > floor(k * balance)
RatioAbove(amount, balance, kn, kd) ==
    amount > (kn * balance.n) \div (kd * balance.d)

\* FraudDetectionEngine.calculate_risk_score(transaction_data) at clock hour
engine_calculate_risk_score(data, hour) ==
    LET amount == Converted(data.amount, 0)
        balance == Converted(data.balance, Num(0))
        age == Converted(data.age, 25)
        ratio_points ==
            IF balance.v.n > 0
            THEN IF RatioAbove(amount.v, balance.v, 2, 1) THEN Weighted(25, 100)
                 ELSE IF RatioAbove(amount.v, balance.v, 1, 1) THEN Weighted(25, 70)
                 ELSE IF RatioAbove(amount.v, balance.v, 1, 2) THEN Weighted(25, 30)
                 ELSE Num(0)
            ELSE Num(0)
        type_points ==
            IF data.transaction_type = "high_risk" THEN Weighted(20, 80)
            ELSE IF data.transaction_type \in {"medium_risk", "online_purchase"}
            THEN Weighted(20, 40)
            ELSE Num(0)
        location_points == IF data.suspicious_location THEN Weighted(15, 90) ELSE Num(0)
        payment_points ==
            IF data.payment_method = "cash" /\ amount.v > 10000 THEN Weighted(15, 70)
            ELSE IF data.payment_method = "digital_wallet" /\ amount.v > 50000
            THEN Weighted(15, 50)
            ELSE Num(0)
        age_points ==
            IF age.v < 21 /\ amount.v > 50000 THEN Weighted(10, 80)
            ELSE IF age.v > 70
                    /\ data.transaction_type \in {"online_purchase", "digital_wallet"}
            THEN Weighted(10, 40)
            ELSE Num(0)
        device_points == IF data.suspicious_device THEN Weighted(10, 85) ELSE Num(0)
        time_points == IF hour < 6 \/ hour > 23 THEN Weighted(5, 60) ELSE Num(0)
        risk_score ==
            RAdd(RAdd(RAdd(ratio_points, type_points),
                      RAdd(location_points, payment_points)),
                 RAdd(RAdd(age_points, device_points), time_points))
    IN  IF amount.raised \/ balance.raised \/ age.raised
        THEN [raised |-> TRUE, error |-> "ValueError"]
        ELSE [raised |-> FALSE, error |-> "",
              risk_score |-> RMin(risk_score, Num(100)),
              amount |-> amount.v, balance |-> balance.v, age |-> age.v]

\* amounts, balances and ages of the bodies posted to the rule-based engine
EngineAmounts == {0, 20000, 60000, 1000000000}
EngineBalances == {Num(0), Rat(1, 100), Num(50000)}
EngineAges == {18, 80}
EngineTypes == {"high_risk", "online_purchase", "other"}
EngineMethods == {"cash", "digital_wallet"}
EngineHours == {3, 12}

\* a complete body
EngineData(amount, balance, age, type, method, location, device) ==
    [amount |-> amount, balance |-> balance, age |-> age,
     transaction_type |-> type, payment_method |-> method,
     suspicious_location |-> location, suspicious_device |-> device]

\* calculate_risk_score on a body with every field present and numeric
EngineRiskScore(data, hour) ==
    /\ Fresh
    /\ LET out == engine_calculate_risk_score(data, hour)
       IN  response' = Resp("engine_calculate_risk_score", 0, out.error,
                            [present |-> TRUE, risk_score |-> out.risk_score],
                            0, [present |-> TRUE, data |-> data, hour |-> hour])
    /\ UNCHANGED <<registry, stats, ghost, threads, log>>

\* locations of a transaction; the suspicious-keyword lists of the
\* repository contain "unknown"
Locations == {"unknown", "New York, USA"}
SuspiciousLocation(location) == location = "unknown"

\* _assess_location_risk(features.user_location), as _calculate_risk_score
\* calls it
AssessLocationRisk(location) ==
    /\ Fresh
    /\ response' = Resp("assess_location_risk", 0, "",
                        [present |-> TRUE,
                         location_risk |-> assess_location_risk(location)],
                        0, [present |-> TRUE, location |-> location])
    /\ UNCHANGED <<registry, stats, ghost, threads, log>>

PolicyNext ==
    \/ \E location \in Locations : AssessLocationRisk(location)
    \/ \E p \in PolicyProbs, amount \in PolicyAmounts : CalculateRiskScore(p, amount)
    \/ \E rf \in PolicyProbs, gb \in PolicyProbs, iso \in {0, 1} : PredictFraud(rf, gb, iso)
    \/ \E p \in PolicyProbs, score \in PolicyScores : Decide(p, score)
    \/ \E p \in PolicyProbs, score \in ThresholdScores,
          ft \in FraudThresholds, rt \in RiskThresholds : DecideAt(p, score, ft, rt)
    \/ \E amount \in EngineAmounts, balance \in EngineBalances, age \in EngineAges,
          type \in EngineTypes, method \in EngineMethods,
          location \in BOOLEAN, device \in BOOLEAN, hour \in EngineHours :
            EngineRiskScore(EngineData(Given(amount), Given(balance), Given(age),
                                       type, method, location, device), hour)

PolicySpec == Init /\ [][PolicyNext]_vars

\* a risk score has just been computed
RiskScored ==
    response.op \in {"calculate_risk_score", "predict_fraud",
                     "engine_calculate_risk_score"}

\* C11: for all valid inputs (any probability in [0,1], any amount, extreme
\* ones included) the risk score a calculator returns is in [0,100].
C11_RiskScoreInRange ==
    RiskScored =>
        /\ RLe(Num(0), response.result.risk_score)
        /\ RLe(response.result.risk_score, Num(100))

\* the pipeline has scored probability 1 on the extreme amount: 50 + 16 + 4 +
\* 1.5 points
C11_Witness ==
    /\ response.op = "calculate_risk_score"
    /\ response.request.p = ProbScale
    /\ response.request.amount = 1000000000
    /\ response.result.risk_score = Rat(715, 10)

\* C12: is_flagged = (probability >= 0.5) OR (risk_score >= 70); not flagged
\* gives APPROVE; otherwise probability > 0.8 or score > 90 gives BLOCK;
\* otherwise probability > 0.6 or score > 75 gives REVIEW; otherwise
\* CHALLENGE.
C12_DecisionPrecedence ==
    response.op = "decide" =>
        LET p == response.request.p
            score == response.request.score
            flagged == (2 * p >= ProbScale) \/ (score >= 70)
        IN  /\ response.result.is_flagged = flagged
            /\ response.result.recommendation =
                 IF ~flagged THEN "APPROVE"
                 ELSE IF (10 * p > 8 * ProbScale) \/ (score > 90) THEN "BLOCK"
                 ELSE IF (10 * p > 6 * ProbScale) \/ (score > 75) THEN "REVIEW"
                 ELSE "CHALLENGE"

\* probability 0.5 with score 0 is flagged by the inclusive threshold alone
\* and passes both strict tests
C12_Witness ==
    /\ response.op = "decide"
    /\ response.request.p * 2 = ProbScale
    /\ response.request.score = 0
    /\ response.result.is_flagged
    /\ response.result.recommendation = "CHALLENGE"

\* C13: for a fixed probability, if risk score s yields BLOCK then every risk
\* score s' >= s yields BLOCK as well.
C13_BlockIsMonotonicInScore ==
    (response.op = "decide" /\ response.result.recommendation = "BLOCK") =>
        \A higher \in PolicyScores :
            higher >= response.request.score =>
                LET p == Rat(response.request.p, ProbScale)
                IN  generate_recommendation(p, Num(higher),
                                            IsFlagged(p, Num(higher))) = "BLOCK"

\* BLOCK owed to the score alone: probability 0.5, score 91
C13_Witness ==
    /\ response.op = "decide"
    /\ response.request.p * 2 = ProbScale
    /\ response.request.score = 91
    /\ response.result.recommendation = "BLOCK"

(***************************************************************************)
(* Claims about the administrative calls                                   *)
(***************************************************************************)
\* C14 (as claimed): from any reachable registry state, activate(id) or
\* deactivate(id) called a second time with the same id leaves the registry
\* (descriptors, weights, active list) as the first call left it.
C14_ActivateDeactivateIdempotent ==
    [][\A id \in ModelIds :
         /\ activate_model(id) => AfterActivate(id)' = registry'
         /\ deactivate_model(id) => AfterDeactivate(id)' = registry']_vars

\* C15 (as claimed): after deactivate(id) returns, id is not in the active
\* set, while its descriptor and its weight are still in the registry.
C15_DeactivateIsSoftDelete ==
    [][\A id \in ModelIds :
         (id \in DOMAIN models /\ deactivate_model(id)) =>
            /\ id \notin ActiveIds'
            /\ id \in DOMAIN models'
            /\ id \in DOMAIN model_weights'
            /\ model_weights'[id] = model_weights[id]]_vars

\* the administrative calls alone, on the registry __init__ builds
AdminNext ==
    \/ Register
    \/ Activate
    \/ Deactivate
    \/ UpdateWeights
    \/ update_model_weights_missing

AdminSpec == Init /\ [][AdminNext]_vars

\* C16: update_weights stores the new weight for exactly the registered ids
\* of the map; for an unregistered id it creates no descriptor and no weight
\* and raises no error; the registered models, the active list and the
\* weights of ids outside the map stay as they were.
C16_UpdateWeightsAppliesToRegisteredOnly ==
    [][\A weights \in WeightMaps :
         update_model_weights(weights) =>
            /\ \A id \in DOMAIN weights \cap DOMAIN models :
                 model_weights'[id] = weights[id]
            /\ \A id \in DOMAIN weights \ DOMAIN models :
                 id \notin DOMAIN models' /\ id \notin DOMAIN model_weights'
            /\ response'.status = 200
            /\ response'.error = ""
            /\ models' = models
            /\ active_models' = active_models
            /\ DOMAIN model_weights' = DOMAIN model_weights
            /\ \A id \in DOMAIN model_weights \ DOMAIN weights :
                 model_weights'[id] = model_weights[id]]_vars

\* a map with a registered and an unregistered id has just been applied
C16_Witness ==
    /\ response.op = "update_model_weights"
    /\ response.status = 200
    /\ response.request.present
    /\ \E id \in DOMAIN response.request.weights : id \notin DOMAIN models
    /\ \E id \in DOMAIN response.request.weights :
         /\ id \in DOMAIN models
         /\ model_weights[id] = response.request.weights[id]

\* the outcomes the models of the active list may produce in one scoring call
ActiveOutcomes(am) == [1..Len(am) -> CodeOutcomes]

\* C17: update_weights called twice with the same map leaves the weights, and
\* for the same per-model probabilities the ensemble probability, as one call
\* leaves them.
C17_UpdateWeightsIdempotent ==
    [][\A weights \in WeightMaps :
         update_model_weights(weights) =>
            /\ AfterUpdate(weights)' = model_weights'
            /\ Repeats(weights) => model_weights' = model_weights
            /\ \A outs \in ActiveOutcomes(active_models) :
                 ensemble_predict(active_models', models',
                                  AfterUpdate(weights)', outs)
                   = ensemble_predict(active_models', models',
                                      model_weights', outs)]_vars

\* the same map, naming an active model, has just been applied a second time
C17_Witness ==
    /\ response.op = "update_model_weights"
    /\ response.request.present
    /\ response.request.again
    /\ DOMAIN response.request.weights \cap ActiveIds # {}

(***************************************************************************)
(* Rounding.  ensemble_predict adds and divides Python floats: every       *)
(* product, sum and quotient is rounded to the nearest float, ties to the  *)
(* even significand.  Where the order of the additions is the question     *)
(* the sums below are rounded in the same way, with a significand of       *)
(* SignificandBits bits in place of the 53 of a Python float.              *)
(***************************************************************************)
SignificandBits == 4

RECURSIVE Pow2(_)
Pow2(k) == IF k = 0 THEN 1 ELSE 2 * Pow2(k - 1)

\* n/d (n, d > 0) rounded to SignificandBits significant bits; up/down is the
\* power of two the significand is scaled by
RECURSIVE RoundSig(_, _, _, _)
RoundSig(n, d, up, down) ==
    IF n >= Pow2(SignificandBits) * d THEN RoundSig(n, 2 * d, 2 * up, down)
    ELSE IF n < Pow2(SignificandBits - 1) * d THEN RoundSig(2 * n, d, up, 2 * down)
    ELSE LET q == n \div d
             r == n % d
             sig == IF 2 * r > d \/ (2 * r = d /\ q % 2 = 1) THEN q + 1 ELSE q
         IN  Rat(sig * up, down)

\* the float nearest to the fraction x >= 0
Fl(x) == IF x.n = 0 THEN Num(0) ELSE RoundSig(x.n, x.d, 1, 1)

FAdd(x, y) == Fl(RAdd(x, y))
FMul(x, y) == Fl(RMul(x, y))
FDiv(x, y) == Fl(Rat(x.n * y.d, x.d * y.n))

\* the three models setup_models registers
OrderIds == {"rf_v1", "gb_v1", "if_v1"}
\* the orders in which they can be registered: the active list of each
Orders == {order \in [1..3 -> OrderIds] : Range(order) = OrderIds}
\* weights of the three models
OrderWeights == [OrderIds -> {1, 2}]
\* per-model probabilities, each a float of SignificandBits bits
FloatProbs == {Rat(1, 16), Rat(1, 2), Num(1)}

\* weighted_sum and total_weight after the first k iterations of the loop of
\* ensemble_predict, when model id returns probability prob[id]
RECURSIVE FloatSums(_, _, _, _)
FloatSums(am, mw, prob, k) ==
    IF k = 0 THEN [weighted_sum |-> Num(0), total_weight |-> Num(0)]
    ELSE LET before == FloatSums(am, mw, prob, k - 1)
             weight == Num(mw[am[k]])
         IN  [weighted_sum |-> FAdd(before.weighted_sum, FMul(prob[am[k]], weight)),
              total_weight |-> FAdd(before.total_weight, weight)]

\* weighted_sum / total_weight if total_weight > 0 else 0.0
FloatEnsemble(am, mw, prob) ==
    LET sums == FloatSums(am, mw, prob, Len(am))
    IN  IF sums.total_weight.n > 0
        THEN FDiv(sums.weighted_sum, sums.total_weight)
        ELSE Num(0)

\* the registry after the three models were registered, active, in some order
OrderInit ==
    /\ \E order \in Orders : active_models = order
    /\ models = [id \in OrderIds |-> ModelMetadata(TRUE)]
    /\ \E weights \in OrderWeights : model_weights = weights
    /\ inference_count = 0
    /\ total_inference_time = 0
    /\ completed = 0
    /\ completed_time = 0
    /\ response = Resp("init", 0, "", NoResult, 0, NoRequest)
    /\ threads = IdleThreads
    /\ log = <<>>

\* one ensemble prediction in which model id returns probability prob[id]
ScoreInOrder(prob) ==
    /\ Fresh
    /\ response' = Resp("ensemble_predict", 0, "",
                        [present |-> TRUE,
                         ensemble_probability |->
                             FloatEnsemble(active_models, model_weights, prob)],
                        Len(active_models), [present |-> TRUE, prob |-> prob])
    /\ UNCHANGED <<registry, stats, ghost, threads, log>>

OrderNext == \E prob \in [OrderIds -> FloatProbs] : ScoreInOrder(prob)

OrderSpec == OrderInit /\ [][OrderNext]_vars

\* C18 (as claimed): registries with the same models, weights and active set
\* that were registered in different orders return the same ensemble
\* probability when each model returns the same per-model probability.
C18_EnsembleInvariantToRegistrationOrder ==
    response.op = "ensemble_predict" =>
        \A order \in Orders :
            FloatEnsemble(order, model_weights, response.request.prob)
              = response.result.ensemble_probability

(***************************************************************************)
(* Claims about input validation                                           *)
(***************************************************************************)
\* C19 (as claimed): a transaction with a required field missing or with an
\* amount that is no number is rejected without a result and before any
\* model's prediction is invoked.
C19_InvalidInputRejectedBeforeModels ==
    (/\ response.op = "detect_fraud"
     /\ (~response.request.complete \/ ~response.request.numeric))
    => /\ response.status # 200
       /\ response.result = NoResult
       /\ response.invoked = 0

(***************************************************************************)
(* Feature extraction of fraud_detection_api: app_advanced.py maps the     *)
(* request body to the features of the ML engine, app.py reads the body    *)
(* inside calculate_risk_score.                                            *)
(***************************************************************************)
\* the values a body may carry for amount, balance and age
BodyAmounts == {Given(20000), Missing, NotANumber}
BodyBalances == {Given(Num(50000)), Field(FALSE, FALSE, Num(0)),
                 Field(TRUE, FALSE, Num(0))}
BodyAges == {Given(18), Missing, NotANumber}

\* a body with its transaction id present or not
Body(has_id, amount, balance, age) ==
    [transaction_id |-> has_id, amount |-> amount, balance |-> balance,
     age |-> age, transaction_type |-> "other", payment_method |-> "cash",
     suspicious_location |-> FALSE, suspicious_device |-> FALSE]

Bodies ==
    {Body(has_id, amount, balance, age) :
        has_id \in BOOLEAN, amount \in BodyAmounts,
        balance \in BodyBalances, age \in BodyAges}

\* a field is missing or no number; so is amount, balance or age of a body
Invalid(field) == ~field.given \/ ~field.numeric

RequiredFieldInvalid(data) ==
    Invalid(data.amount) \/ Invalid(data.balance) \/ Invalid(data.age)

\* map_transaction_to_ml_format(transaction_data): the amount, balance and
\* age of the ML features, or the ValueError of float()/int()
map_transaction_to_ml_format(data) ==
    LET amount == Converted(data.amount, 0)
        balance == Converted(data.balance, Num(0))
        age == Converted(data.age, 30)
    IN  IF amount.raised \/ balance.raised \/ age.raised
        THEN [raised |-> TRUE, error |-> "ValueError"]
        ELSE [raised |-> FALSE, error |-> "",
              amount |-> amount.v, balance |-> balance.v, age |-> age.v]

\* POST /api/analyze of app_advanced.py, when the trained models answer rf,
\* gb and iso for the mapped features
analyze_transaction(data, rf, gb, iso) ==
    /\ Fresh
    /\ LET ml_data == map_transaction_to_ml_format(data)
       IN  response' =
             IF ~data.transaction_id \/ ~data.amount.given \/ ~data.balance.given
             THEN Resp("analyze_transaction", 400, "missing required field",
                       NoResult, 0, data)
             ELSE IF ml_data.raised
             THEN Resp("analyze_transaction", 500, ml_data.error, NoResult, 0, data)
             ELSE Resp("analyze_transaction", 200, "",
                       [present |-> TRUE,
                        risk_score |-> Num(predict_fraud_risk_score(
                                               ensemble_proba(rf, gb, iso))),
                        amount |-> ml_data.amount, balance |-> ml_data.balance,
                        age |-> ml_data.age],
                       3, data)
    /\ UNCHANGED <<registry, stats, ghost, threads, log>>

\* FraudDetectionEngine.calculate_risk_score(data), called at clock hour
engine_score(data, hour) ==
    /\ Fresh
    /\ LET out == engine_calculate_risk_score(data, hour)
       IN  response' =
             IF out.raised
             THEN Resp("engine_score", 500, out.error, NoResult, 0, data)
             ELSE Resp("engine_score", 200, "",
                       [present |-> TRUE, risk_score |-> out.risk_score,
                        amount |-> out.amount, balance |-> out.balance,
                        age |-> out.age],
                       0, data)
    /\ UNCHANGED <<registry, stats, ghost, threads, log>>

AnalyzeNext ==
    \/ \E data \in Bodies, rf \in Probs, gb \in Probs, iso \in {0, 1} :
         analyze_transaction(data, rf, gb, iso)
    \/ \E data \in Bodies, hour \in EngineHours : engine_score(data, hour)

AnalyzeSpec == Init /\ [][AnalyzeNext]_vars

\* C20 (as claimed): feature extraction fails whenever amount, balance or
\* age is missing or no number; it never puts a default in the place of one
\* of them and scores the transaction.
C20_NoDefaultForRequiredField ==
    (/\ response.op \in {"analyze_transaction", "engine_score"}
     /\ RequiredFieldInvalid(response.request))
    => /\ response.status # 200
       /\ response.result = NoResult

\* C21 (as claimed): an administrative call that names an unregistered model
\* id is reported to the caller as an error and leaves the registry as it
\* was.
C21_UnknownIdIsReported ==
    [][/\ \A id \in ModelIds :
         (id \notin DOMAIN models /\ (activate_model(id) \/ deactivate_model(id)))
            => /\ response'.status # 200
               /\ response'.error # ""
               /\ registry' = registry
      /\ \A weights \in WeightMaps :
           (/\ DOMAIN weights # {}
            /\ DOMAIN weights \cap DOMAIN models = {}
            /\ update_model_weights(weights))
              => /\ response'.status # 200
                 /\ response'.error # ""
                 /\ registry' = registry]_vars

(***************************************************************************)
(* Claims about the risk score                                             *)
(***************************************************************************)
\* the tier of an amount: > 10,000 -> 80, > 5,000 -> 60, > 1,000 -> 30, else 10
AmountTier(amount) ==
    IF amount > 10000 THEN 80
    ELSE IF amount > 5000 THEN 60
    ELSE IF amount > 1000 THEN 30
    ELSE 10

\* x clamped to [lo, hi]
Clamp(x, lo, hi) == IF x < lo THEN lo ELSE IF x > hi THEN hi ELSE x

\* C22: risk score = clamp(base*0.5 + amount_risk*0.2 + location_risk*0.2 +
\* time_risk*0.1, 0, 100) with base = probability * 100 and amount_risk the
\* step function whose boundaries 10,000 / 5,000 / 1,000 fall in the lower
\* tier.  Stated in tenths of a point.
C22_RiskScoreFormula ==
    response.op = "calculate_risk_score" =>
        LET base == (100 * response.request.p) \div ProbScale
            tenths == 5 * base + 2 * AmountTier(response.request.amount)
                      + 2 * assess_location_risk("user_location")
                      + 1 * assess_time_risk("transaction_time")
        IN  response.result.risk_score = Rat(Clamp(tenths, 0, 1000), 10)

\* an amount on the boundary 10,000 scored in the tier below: 50 + 12 + 4 + 1.5
C22_Witness ==
    /\ response.op = "calculate_risk_score"
    /\ response.request.amount = 10000
    /\ response.request.p = ProbScale
    /\ response.result.risk_score = Rat(675, 10)

\* C23 (as claimed): the location risk that enters the risk score is 80 for
\* a location that matches the suspicious keywords and a lower baseline for
\* one that does not.
C23_LocationRiskDependsOnLocation ==
    response.op = "assess_location_risk" =>
        IF SuspiciousLocation(response.request.location)
        THEN response.result.location_risk = 80
        ELSE response.result.location_risk < 80

(***************************************************************************)
(* The example scenario: the registry of two active models of weight 1.0   *)
(* and one scoring call for an amount of 75000.  The hour and the location *)
(* of the transaction are read by no line of the pipeline.                 *)
(***************************************************************************)
\* every probability a model may return, in tenths
ScenarioOutcomes == {Predicted(p) : p \in 0..ProbScale}

ScenarioScore ==
    \E outs \in [1..Len(SetupModels) -> ScenarioOutcomes], latency \in Latencies :
        DetectFraud(Txn(TRUE, TRUE, TRUE, 75000), outs, latency)

ScenarioSpec == ConcInit /\ [][ScenarioScore]_vars

\* the two models returned 0.8 and 0.9
ScenarioPredictions ==
    /\ Scored
    /\ response.request.amount = 75000
    /\ Len(response.result.model_predictions) = 2
    /\ response.result.model_predictions[1].fraud_probability = 8
    /\ response.result.model_predictions[2].fraud_probability = 9

\* C24 (as claimed): amount 75000, two active models of weight 1.0 returning
\* 0.8 and 0.9 give ensemble probability 0.85, a risk score >= 80 and the
\* recommendation BLOCK.
C24_ExampleScenario ==
    ScenarioPredictions =>
        /\ response.result.fraud_probability = Rat(85, 100)
        /\ RLe(Num(80), response.result.risk_score)
        /\ response.result.recommendation = "BLOCK"

(***************************************************************************)
(* Claims about the registry after any sequence of calls                   *)
(***************************************************************************)
\* C25 (as claimed): after any sequence of register, activate and deactivate
\* calls each model id occurs at most once in the active list.
C25_ActiveListHasNoDuplicates == Len(active_models) = Cardinality(ActiveIds)

\* C26 (as claimed): after any sequence of register, activate and deactivate
\* calls a registered model's descriptor has is_active set exactly when its
\* id is in the active list.
C26_ActiveFlagMatchesActiveList ==
    \A id \in DOMAIN models : models[id].is_active = (id \in ActiveIds)

(***************************************************************************)
(* Scoring calls, failing ones among them, on the registry of setup_models *)
(* while models are switched off and on and weights are changed.           *)
(***************************************************************************)
StatsNext ==
    \/ detect_fraud
    \/ Deactivate
    \/ Activate
    \/ UpdateWeights

StatsSpec == ConcInit /\ [][StatsNext]_vars

ModelProbabilities(r) ==
    {Rat(r.model_predictions[k].fraud_probability, ProbScale) :
        k \in 1..Len(r.model_predictions)}

\* C28 (as claimed): with a non-empty active set and per-model probabilities
\* in [0,1], the ensemble probability of a scoring result is in [0,1] and lies
\* between the smallest and the largest per-model probability.
C28_EnsembleProbabilityInRange ==
    (/\ Scored
     /\ \A q \in ModelProbabilities(response.result) :
            RLe(Num(0), q) /\ RLe(q, Num(1)))
    => /\ RLe(Num(0), response.result.fraud_probability)
       /\ RLe(response.result.fraud_probability, Num(1))
       /\ \E q \in ModelProbabilities(response.result) :
              RLe(q, response.result.fraud_probability)
       /\ \E q \in ModelProbabilities(response.result) :
              RLe(response.result.fraud_probability, q)

(***************************************************************************)
(* A total weight of zero                                                  *)
(***************************************************************************)
\* the last call scored a well-formed transaction on a non-empty active list
\* whose weights sum to 0, and no model call raised
ZeroWeightScoring ==
    /\ response.op = "detect_fraud"
    /\ response.request.complete
    /\ response.request.hashable
    /\ response.request.numeric
    /\ active_models # <<>>
    /\ ActiveIds \subseteq DOMAIN models
    /\ TotalWeight(active_models, model_weights, Len(active_models)) = 0
    /\ response.error # "model inference failed"

\* C29: when the active list is non-empty and the weights of its entries sum
\* to 0, the prediction does not fail: the call answers 200 with ensemble
\* probability 0.0 and one prediction per active entry, whatever the models
\* returned.
C29_ZeroTotalWeightGivesZero ==
    ZeroWeightScoring
    => /\ response.status = 200
       /\ response.result.fraud_probability = Num(0)
       /\ Len(response.result.model_predictions) = Len(active_models)
       /\ \A k \in 1..Len(active_models) :
              response.result.model_predictions[k].model_id = active_models[k]

\* two models that both returned 0.9 were scored under a total weight of 0
C29_Witness ==
    /\ ZeroWeightScoring
    /\ Scored
    /\ Len(active_models) = 2
    /\ \A k \in 1..2 : response.result.model_predictions[k].fraud_probability = 9
    /\ response.result.fraud_probability = Num(0)

(***************************************************************************)
(* The recommendation and the flag                                         *)
(***************************************************************************)
\* C30: in every result of process, the recommendation is APPROVE exactly
\* when is_flagged is false, and a flagged transaction gets BLOCK, REVIEW or
\* CHALLENGE, whatever fraud and risk-score thresholds the pipeline was
\* constructed with.
C30_ApproveIffNotFlagged ==
    response.op = "decide_at" =>
        /\ response.result.is_flagged =
             (\/ response.request.p >= response.request.fraud_threshold
              \/ response.request.score >= response.request.risk_score_threshold)
        /\ (response.result.recommendation = "APPROVE") <=> ~response.result.is_flagged
        /\ response.result.is_flagged =>
             response.result.recommendation \in {"BLOCK", "REVIEW", "CHALLENGE"}

\* with both thresholds at 0, probability 0.0 and score 0 are flagged and pass
\* every strict test of the recommendation
C30_Witness ==
    /\ response.op = "decide_at"
    /\ response.request.fraud_threshold = 0
    /\ response.request.risk_score_threshold = 0
    /\ response.request.p = 0
    /\ response.request.score = 0
    /\ response.result.is_flagged
    /\ response.result.recommendation = "CHALLENGE"

====
